---- MODULE Spec2Model ----
(***************************************************************************)
(* Model of create_animated_map.ipynb: the notebook that samples bus       *)
(* positions to one row per trip and minute, builds the route lines,       *)
(* renders one map per sampled minute for two extents and composes the     *)
(* maps into two GIFs.                                                     *)
(*                                                                         *)
(* Encoding of values:                                                     *)
(*  - instants are integer seconds since the Unix epoch;                   *)
(*  - longitude/latitude are integer hundredths of a degree;               *)
(*  - projected coordinates are integer metres (EPSG:3857, rounded);       *)
(*  - NaN is the missing value pandas writes into empty cells.             *)
(*                                                                         *)
(* The cells run in the notebook's order.  A cell whose code raises ends   *)
(* at the exception, leaving the kernel and the files as they are at that  *)
(* point, and the following cells can still be run.  The image             *)
(* directories and the gif paths hold no files before the run.  The        *)
(* positions table is not empty and its rows have no null fields.          *)
(***************************************************************************)
EXTENDS Integers, Sequences, FiniteSets, TLC

VARIABLES
    rushhour2,        \* rows of the database table read by cell 3
    shapes_txt,       \* rows of data/gtfs_static/shapes.txt read by cell 4
    df,               \* positions DataFrame of the kernel
    df_lines,         \* shape points DataFrame of the kernel
    gdf_pos,          \* sampled positions (output of preprocessing_positions)
    gdf_lines,        \* route geometries (output of preprocessing_lines)
    bound,            \* names bound in the kernel namespace
    files,            \* files[dir]: file name code -> image, per image directory
    gifs,             \* animations written: gif path -> sequence of images
    pc,               \* the cell the notebook run is at
    k,                \* loop position in gdf_pos.index.unique() of the running cell
    list_of_images,   \* create_gif's accumulator
    raised            \* cells that ended in an exception

vars == <<rushhour2, shapes_txt, df, df_lines, gdf_pos, gdf_lines, bound,
          files, gifs, pc, k, list_of_images, raised>>

-----------------------------------------------------------------------------
(* Bounds of the model                                                     *)

MaxRecords == 3
MaxShapePoints == 3

-----------------------------------------------------------------------------
(* Values                                                                  *)

NaN == -999999999

HourOffset == -7
SecondsPerHour == 3600
Freq == 60
HoursPerDay == 24
MinutesPerHour == 60

\* 2020-03-12 00:00:00 UTC, i.e. 17:00 in the notebook's display time
RushHourStart == 18333 * HoursPerDay * SecondsPerHour
NextDay == HoursPerDay * SecondsPerHour

PtDowntown == <<-12268, 4552>>
PtSuburb == <<-12280, 4540>>

Rec(trip, sec, pt) ==
    [trip_id |-> trip, update_time |-> RushHourStart + sec,
     longitude |-> pt[1], latitude |-> pt[2]]

\* candidate rows of the positions table
PositionRows ==
    { Rec(1, 0, PtDowntown), Rec(1, 0, PtSuburb), Rec(1, 10, PtSuburb),
      Rec(1, 59, PtDowntown), Rec(1, 61, PtSuburb), Rec(1, 180, PtDowntown),
      Rec(2, 61, PtDowntown), Rec(2, 130, PtSuburb),
      Rec(3, NextDay, PtSuburb) }

ShapePt(id, pt) == [shape_id |-> id, shape_pt_lon |-> pt[1], shape_pt_lat |-> pt[2]]

ShapeRows == { ShapePt(id, pt) : id \in {1, 2}, pt \in {PtDowntown, PtSuburb} }

SeqsUpTo(S, n) == UNION { [1..m -> S] : m \in 1..n }

-----------------------------------------------------------------------------
(* pandas / geopandas helpers                                              *)

Range(s) == { s[j] : j \in 1..Len(s) }

\* variant: drop_duplicates(keep=False), which drops every row that has a copy
drop_duplicates_keep_false(s) ==
    SelectSeq(s, LAMBDA r : Cardinality({ j \in 1..Len(s) : s[j] = r }) = 1)

\* DataFrame.drop_duplicates(): keep the first occurrence of every row
RECURSIVE drop_duplicates(_)
drop_duplicates(s) ==
    IF s = <<>> THEN <<>>
    ELSE LET n == Len(s)
             head == drop_duplicates(SubSeq(s, 1, n - 1))
         IN  IF s[n] \in Range(head) THEN head ELSE Append(head, s[n])

\* pd.to_datetime(update_time, unit='s') + pd.offsets.Hour(-7)
update_datetime(r) == r.update_time + HourOffset * SecondsPerHour

WithIndex(r) ==
    [update_datetime |-> update_datetime(r), trip_id |-> r.trip_id,
     update_time |-> r.update_time, longitude |-> r.longitude,
     latitude |-> r.latitude]

\* insert r behind every row whose index is not greater (keeps arrival order
\* among equal indices, as the sort does on frames of this size)
RECURSIVE InsertByIndex(_, _)
InsertByIndex(s, r) ==
    IF s = <<>> THEN <<r>>
    ELSE IF s[Len(s)].update_datetime <= r.update_datetime THEN Append(s, r)
    ELSE Append(InsertByIndex(SubSeq(s, 1, Len(s) - 1), r), s[Len(s)])

\* variant: sort_index(ascending=False)
RECURSIVE sort_index_descending(_)
sort_index_descending(s) ==
    IF s = <<>> THEN <<>>
    ELSE LET rest == sort_index_descending(SubSeq(s, 1, Len(s) - 1))
             r == s[Len(s)]
             before == SelectSeq(rest, LAMBDA q : q.update_datetime >= r.update_datetime)
             after == SelectSeq(rest, LAMBDA q : q.update_datetime < r.update_datetime)
         IN  before \o <<r>> \o after

\* DataFrame.sort_index()
RECURSIVE sort_index(_)
sort_index(s) ==
    IF s = <<>> THEN <<>>
    ELSE InsertByIndex(sort_index(SubSeq(s, 1, Len(s) - 1)), s[Len(s)])

\* Series.unique() / Index.unique(): distinct values in order of appearance
RECURSIVE unique(_)
unique(s) ==
    IF s = <<>> THEN <<>>
    ELSE LET head == unique(SubSeq(s, 1, Len(s) - 1))
         IN  IF s[Len(s)] \in Range(head) THEN head ELSE Append(head, s[Len(s)])

Column(s, c) == [j \in 1..Len(s) |-> s[j][c]]

\* the 60 s bin of an instant: bins are aligned to midnight, hence to the epoch
Bin(t) == t \div Freq

\* variant: the last non-null entry of the bin (GroupBy.last())
last(col) ==
    LET present == SelectSeq(col, LAMBDA v : v # NaN)
    IN  IF present = <<>> THEN NaN ELSE present[Len(present)]

\* GroupBy.first() on one column: the first non-null entry, NaN if there is none
first(col) ==
    LET present == SelectSeq(col, LAMBDA v : v # NaN)
    IN  IF present = <<>> THEN NaN ELSE present[1]

\* one output row of .resample('60s').first() for bin b
ResampledRow(tmp, b) ==
    LET inbin == SelectSeq(tmp, LAMBDA r : Bin(r.update_datetime) = b)
    IN  [update_datetime |-> b * Freq,
         trip_id |-> first(Column(inbin, "trip_id")),
         update_time |-> first(Column(inbin, "update_time")),
         longitude |-> first(Column(inbin, "longitude")),
         latitude |-> first(Column(inbin, "latitude"))]

\* tmp.resample('60s').first(): one row for every bin from the earliest row's
\* bin to the latest row's bin, observed or not (tmp is not empty)
resample_first(tmp) ==
    LET bins == { Bin(tmp[j].update_datetime) : j \in 1..Len(tmp) }
        lo == CHOOSE b \in bins : \A c \in bins : b <= c
        hi == CHOOSE b \in bins : \A c \in bins : c <= b
    IN  [j \in 1..(hi - lo + 1) |-> ResampledRow(tmp, lo + j - 1)]

\* EPSG:4326 -> EPSG:3857, to the metre, on the coordinates of the model
MercatorX(lon) ==
    CASE lon = -12268 -> -13656675
      [] lon = -12280 -> -13670033

MercatorY(lat) ==
    CASE lat = 4552 -> 5703760
      [] lat = 4540 -> 5684715

to_crs(lon, lat) ==
    IF lon = NaN \/ lat = NaN THEN <<NaN, NaN>>
    ELSE <<MercatorX(lon), MercatorY(lat)>>

WithGeometry(r) ==
    [update_datetime |-> r.update_datetime, trip_id |-> r.trip_id,
     update_time |-> r.update_time, longitude |-> r.longitude,
     latitude |-> r.latitude, geometry |-> to_crs(r.longitude, r.latitude)]

\* the loop over df.trip_id.unique(): df_sampled after the trips in `trips`
RECURSIVE SampleTrips(_, _)
SampleTrips(sorted, trips) ==
    IF trips = <<>> THEN <<>>
    ELSE LET n == Len(trips)
             tmp == SelectSeq(sorted, LAMBDA r : r.trip_id = trips[n])
         IN  SampleTrips(sorted, SubSeq(trips, 1, n - 1)) \o resample_first(tmp)

preprocessing_positions(d) ==
    LET sorted == sort_index([j \in 1..Len(d) |-> WithIndex(d[j])])
        df_sampled == SampleTrips(sorted, unique(Column(sorted, "trip_id")))
        gdf == [j \in 1..Len(df_sampled) |-> WithGeometry(df_sampled[j])]
    IN  sort_index(gdf)

\* groupby(['shape_id']): the shape ids, and the points of one shape in file order
ShapeIds(d) == { d[j].shape_id : j \in 1..Len(d) }

ShapeGroup(d, id) == SelectSeq(d, LAMBDA r : r.shape_id = id)

\* LineString(points) raises ValueError on a single point
LineStringRaises(points) == Len(points) < 2

\* preprocessing_lines raises when the LineString of some group does
preprocessing_lines_raises(d) ==
    \E id \in ShapeIds(d) : LineStringRaises(ShapeGroup(d, id))

\* the GeoDataFrame preprocessing_lines returns: shape_id -> projected vertices
preprocessing_lines(d) ==
    [id \in ShapeIds(d) |->
        LET g == ShapeGroup(d, id)
        IN  [j \in 1..Len(g) |-> to_crs(g[j].shape_pt_lon, g[j].shape_pt_lat)]]

-----------------------------------------------------------------------------
(* Cell 10: extents and image directories; cells 14/15: the gif paths      *)

xlim_greater_portland == <<-13707000, -13615000>>
ylim_greater_portland == <<5665000, 5725000>>
xlim_downtown == <<-13660000, -13650000>>
ylim_downtown == <<5698000, 5708000>>
path_images_greater_portland == "data/greater_portland"
path_images_downtown == "data/downtown"
gif_greater_portland == "data/greater_portland.gif"
gif_downtown == "data/downtown.gif"

ImageDirs == {path_images_greater_portland, path_images_downtown}

\* arguments of the create_maps calls of cells 11 and 12
MapsArgs(cell) ==
    IF cell = "cell11"
    THEN [xlim |-> xlim_greater_portland, ylim |-> ylim_greater_portland,
          path_images |-> path_images_greater_portland]
    ELSE [xlim |-> xlim_downtown, ylim |-> ylim_downtown,
          path_images |-> path_images_downtown]

\* arguments of the create_gif calls of cells 14 and 15
GifArgs(cell) ==
    IF cell = "cell14"
    THEN [path_images |-> path_images_downtown, path_gif |-> gif_greater_portland]
    ELSE [path_images |-> path_images_downtown, path_gif |-> gif_downtown]

\* the order in which the notebook's cells run (cells 5, 7, 9, 10 and 13 only
\* define functions and settings)
NextCell(cell) ==
    CASE cell = "cell3" -> "cell4"
      [] cell = "cell4" -> "cell6"
      [] cell = "cell6" -> "cell8"
      [] cell = "cell8" -> "cell11"
      [] cell = "cell11" -> "cell12"
      [] cell = "cell12" -> "cell14"
      [] cell = "cell14" -> "cell15"
      [] cell = "cell15" -> "done"

-----------------------------------------------------------------------------
(* create_maps and create_gif                                              *)

\* gdf_pos.index.unique()
index_unique(g) == unique(Column(g, "update_datetime"))

\* variant: i.strftime("%H"), the hour alone
strftime_H(i) == (i \div SecondsPerHour) % HoursPerDay

\* i.strftime("%H%M"), as the number the four digits spell
strftime_HM(i) ==
    ((i \div SecondsPerHour) % HoursPerDay) * 100 + ((i \div Freq) % MinutesPerHour)

\* the markers of gdf_pos.loc[i].plot that fall inside the axes limits
Markers(g, i, xlim, ylim) ==
    { g[j].geometry : j \in { n \in 1..Len(g) :
          /\ g[n].update_datetime = i
          /\ g[n].geometry # <<NaN, NaN>>
          /\ xlim[1] <= g[n].geometry[1] /\ g[n].geometry[1] <= xlim[2]
          /\ ylim[1] <= g[n].geometry[2] /\ g[n].geometry[2] <= ylim[2] } }

\* the figure create_maps saves for index value i
Figure(lines, g, i, xlim, ylim) ==
    [xlim |-> xlim, ylim |-> ylim, lines |-> lines,
     markers |-> Markers(g, i, xlim, ylim), text |-> strftime_HM(i)]

\* plt.savefig(f'{path_images}/{code}.png'): create or overwrite one file
savefig(dir, code, fig) ==
    [c \in (DOMAIN dir) \cup {code} |-> IF c = code THEN fig ELSE dir[c]]

NoFiles == [c \in {} |-> 0]

-----------------------------------------------------------------------------
(* The notebook run                                                        *)

\* the shapes files of the full run: a good one, and one with a one-point shape
NotebookShapes ==
    { <<ShapePt(1, PtSuburb), ShapePt(1, PtDowntown)>>,
      <<ShapePt(1, PtSuburb), ShapePt(1, PtDowntown), ShapePt(2, PtDowntown)>> }

InitKernel ==
    /\ df = <<>>
    /\ df_lines = <<>>
    /\ gdf_pos = <<>>
    /\ gdf_lines = <<>>
    /\ bound = {}
    /\ files = [d \in ImageDirs |-> NoFiles]
    /\ gifs = NoFiles
    /\ pc = "cell3"
    /\ k = 0
    /\ list_of_images = <<>>
    /\ raised = {}

Init ==
    /\ rushhour2 \in SeqsUpTo(PositionRows, MaxRecords)
    /\ shapes_txt \in NotebookShapes
    /\ InitKernel

\* cell 3: df = pd.read_sql(query, engine); df = df.drop_duplicates()
ReadPositions ==
    /\ pc = "cell3"
    /\ df' = drop_duplicates(rushhour2)
    /\ bound' = bound \cup {"df"}
    /\ pc' = NextCell(pc)
    /\ UNCHANGED <<rushhour2, shapes_txt, df_lines, gdf_pos, gdf_lines, files,
                   gifs, k, list_of_images, raised>>

\* cell 4: df_lines = pd.read_csv('data/gtfs_static/shapes.txt')
ReadLines ==
    /\ pc = "cell4"
    /\ df_lines' = shapes_txt
    /\ bound' = bound \cup {"df_lines"}
    /\ pc' = NextCell(pc)
    /\ UNCHANGED <<rushhour2, shapes_txt, df, gdf_pos, gdf_lines, files, gifs,
                   k, list_of_images, raised>>

\* cell 6: gdf_pos = preprocessing_positions(df)
PreprocessPositions ==
    /\ pc = "cell6"
    /\ gdf_pos' = preprocessing_positions(df)
    /\ bound' = bound \cup {"gdf_pos"}
    /\ pc' = NextCell(pc)
    /\ UNCHANGED <<rushhour2, shapes_txt, df, df_lines, gdf_lines, files, gifs,
                   k, list_of_images, raised>>

\* cell 8: gdf_lines = preprocessing_lines(df_lines)
PreprocessLines ==
    /\ pc = "cell8"
    /\ ~preprocessing_lines_raises(df_lines)
    /\ gdf_lines' = preprocessing_lines(df_lines)
    /\ bound' = bound \cup {"gdf_lines"}
    /\ pc' = NextCell(pc)
    /\ UNCHANGED <<rushhour2, shapes_txt, df, df_lines, gdf_pos, files, gifs,
                   k, list_of_images, raised>>

\* cell 8 when a LineString raises: the exception leaves the function, the
\* assignment does not happen and gdf_lines stays unbound
PreprocessLinesRaises ==
    /\ pc = "cell8"
    /\ preprocessing_lines_raises(df_lines)
    /\ raised' = raised \cup {pc}
    /\ pc' = NextCell(pc)
    /\ UNCHANGED <<rushhour2, shapes_txt, df, df_lines, gdf_pos, gdf_lines,
                   bound, files, gifs, k, list_of_images>>

\* cells 11, 12: one iteration of create_maps' loop that saves its figure
RenderFrame ==
    /\ pc \in {"cell11", "cell12"}
    /\ k < Len(index_unique(gdf_pos))
    /\ "gdf_lines" \in bound
    /\ LET a == MapsArgs(pc)
           i == index_unique(gdf_pos)[k + 1]
       IN  files' = [files EXCEPT ![a.path_images] =
                        savefig(@, strftime_HM(i),
                                Figure(gdf_lines, gdf_pos, i, a.xlim, a.ylim))]
    /\ k' = k + 1
    /\ UNCHANGED <<rushhour2, shapes_txt, df, df_lines, gdf_pos, gdf_lines,
                   bound, gifs, pc, list_of_images, raised>>

\* cells 11, 12: ctx.add_basemap raises in this iteration (the tile fetch
\* fails); nothing catches it, so create_maps and the cell end here
RenderFrameRaises ==
    /\ pc \in {"cell11", "cell12"}
    /\ k < Len(index_unique(gdf_pos))
    /\ "gdf_lines" \in bound
    /\ raised' = raised \cup {pc}
    /\ pc' = NextCell(pc)
    /\ k' = 0
    /\ UNCHANGED <<rushhour2, shapes_txt, df, df_lines, gdf_pos, gdf_lines,
                   bound, files, gifs, list_of_images>>

\* cells 11, 12: gdf_lines.plot raises NameError when cell 8 bound no gdf_lines
RenderWithoutLines ==
    /\ pc \in {"cell11", "cell12"}
    /\ k < Len(index_unique(gdf_pos))
    /\ "gdf_lines" \notin bound
    /\ raised' = raised \cup {pc}
    /\ pc' = NextCell(pc)
    /\ k' = 0
    /\ UNCHANGED <<rushhour2, shapes_txt, df, df_lines, gdf_pos, gdf_lines,
                   bound, files, gifs, list_of_images>>

\* cells 11, 12: the loop is exhausted, create_maps returns
MapsReturn ==
    /\ pc \in {"cell11", "cell12"}
    /\ k = Len(index_unique(gdf_pos))
    /\ pc' = NextCell(pc)
    /\ k' = 0
    /\ UNCHANGED <<rushhour2, shapes_txt, df, df_lines, gdf_pos, gdf_lines,
                   bound, files, gifs, list_of_images, raised>>

\* cells 14, 15: one iteration of create_gif's loop, imageio.imread of a file
ReadImage ==
    /\ pc \in {"cell14", "cell15"}
    /\ k < Len(index_unique(gdf_pos))
    /\ LET a == GifArgs(pc)
           code == strftime_HM(index_unique(gdf_pos)[k + 1])
       IN  /\ code \in DOMAIN files[a.path_images]
           /\ list_of_images' = Append(list_of_images, files[a.path_images][code])
    /\ k' = k + 1
    /\ UNCHANGED <<rushhour2, shapes_txt, df, df_lines, gdf_pos, gdf_lines,
                   bound, files, gifs, pc, raised>>

\* variant: a missing file is skipped and the loop goes on
ReadImageSkips ==
    /\ pc \in {"cell14", "cell15"}
    /\ k < Len(index_unique(gdf_pos))
    /\ strftime_HM(index_unique(gdf_pos)[k + 1])
           \notin DOMAIN files[GifArgs(pc).path_images]
    /\ k' = k + 1
    /\ UNCHANGED <<rushhour2, shapes_txt, df, df_lines, gdf_pos, gdf_lines,
                   bound, files, gifs, pc, list_of_images, raised>>

\* cells 14, 15: imageio.imread raises FileNotFoundError, create_gif ends
ReadImageRaises ==
    /\ pc \in {"cell14", "cell15"}
    /\ k < Len(index_unique(gdf_pos))
    /\ strftime_HM(index_unique(gdf_pos)[k + 1])
           \notin DOMAIN files[GifArgs(pc).path_images]
    /\ raised' = raised \cup {pc}
    /\ pc' = NextCell(pc)
    /\ k' = 0
    /\ list_of_images' = <<>>
    /\ UNCHANGED <<rushhour2, shapes_txt, df, df_lines, gdf_pos, gdf_lines,
                   bound, files, gifs>>

\* cells 14, 15: imageio.mimsave(path_gif, list_of_images, fps=10)
Mimsave ==
    /\ pc \in {"cell14", "cell15"}
    /\ k = Len(index_unique(gdf_pos))
    /\ gifs' = savefig(gifs, GifArgs(pc).path_gif, list_of_images)
    /\ pc' = NextCell(pc)
    /\ k' = 0
    /\ list_of_images' = <<>>
    /\ UNCHANGED <<rushhour2, shapes_txt, df, df_lines, gdf_pos, gdf_lines,
                   bound, files, raised>>

Next ==
    \/ ReadPositions
    \/ ReadLines
    \/ PreprocessPositions
    \/ PreprocessLines
    \/ PreprocessLinesRaises
    \/ RenderFrame
    \/ RenderFrameRaises
    \/ RenderWithoutLines
    \/ MapsReturn
    \/ ReadImage
    \/ ReadImageRaises
    \/ Mimsave

Spec == Init /\ [][Next]_vars

\* preprocessing_lines over every shapes file of the bounds
InitLines ==
    /\ rushhour2 = <<Rec(1, 0, PtDowntown)>>
    /\ shapes_txt \in SeqsUpTo(ShapeRows, MaxShapePoints)
    /\ InitKernel

SpecLines == InitLines /\ [][Next]_vars

-----------------------------------------------------------------------------
(* Properties of preprocessing_positions                                   *)

Sampled == "gdf_pos" \in bound

\* the display-time minute bucket of a raw record, from the record alone
RecordBucket(r) == (r.update_time - 7 * 3600) \div 60

\* the raw records of trip t in bucket b
RecordsIn(t, b) ==
    { j \in 1..Len(rushhour2) :
        rushhour2[j].trip_id = t /\ RecordBucket(rushhour2[j]) = b }

\* the output rows of trip t whose timestamp lies in bucket b
RowsIn(t, b) ==
    { n \in 1..Len(gdf_pos) :
        gdf_pos[n].trip_id = t /\ gdf_pos[n].update_datetime \div 60 = b }

EarliestIn(t, b) ==
    { j \in RecordsIn(t, b) :
        \A m \in RecordsIn(t, b) :
            rushhour2[j].update_time <= rushhour2[m].update_time }

\* C1: for every trip and every epoch-aligned 60-second bucket holding a raw
\* record of the trip, the output has exactly one row of that trip in the
\* bucket, stamped with the bucket's start and carrying the coordinates of an
\* earliest record of the trip in the bucket.
C1_OneSamplePerTripAndBucket ==
    Sampled =>
        \A j \in 1..Len(rushhour2) :
            LET t == rushhour2[j].trip_id
                b == RecordBucket(rushhour2[j])
            IN  /\ Cardinality(RowsIn(t, b)) = 1
                /\ \A n \in RowsIn(t, b) :
                      /\ gdf_pos[n].update_datetime = b * 60
                      /\ \E e \in EarliestIn(t, b) :
                            /\ gdf_pos[n].longitude = rushhour2[e].longitude
                            /\ gdf_pos[n].latitude = rushhour2[e].latitude
                            /\ gdf_pos[n].geometry =
                                  to_crs(rushhour2[e].longitude, rushhour2[e].latitude)

\* records at seconds 59 and 61 of a minute, and an earlier record at second 10
\* with other coordinates that arrives last: two rows in adjacent buckets, the
\* first with the coordinates of the record at second 10
C1_Witness ==
    /\ Sampled
    /\ rushhour2 = <<Rec(1, 59, PtDowntown), Rec(1, 61, PtSuburb), Rec(1, 10, PtSuburb)>>
    /\ Len(gdf_pos) = 2
    /\ gdf_pos[2].update_datetime = gdf_pos[1].update_datetime + 60
    /\ gdf_pos[1].geometry = to_crs(PtSuburb[1], PtSuburb[2])
    /\ gdf_pos[1].update_time = RushHourStart + 10

\* the buckets in which some trip has a raw record
ObservedBuckets == { RecordBucket(rushhour2[j]) : j \in 1..Len(rushhour2) }

\* C2 (as claimed): no forward-fill and no placeholder: a trip has no row in
\* a bucket where it has no raw record, no row is a placeholder, and every
\* timestamp of the output's index is one at which some trip was observed.
C2_NoPlaceholderRows ==
    Sampled =>
        /\ \A n \in 1..Len(gdf_pos) :
              /\ gdf_pos[n].trip_id # NaN
              /\ RecordsIn(gdf_pos[n].trip_id, gdf_pos[n].update_datetime \div 60) # {}
        /\ \A n \in 1..Len(gdf_pos) :
              gdf_pos[n].update_datetime \div 60 \in ObservedBuckets

\* the table without the later copies of its rows
WithoutCopies(s) ==
    LET keep == { j \in 1..Len(s) : \A m \in 1..(j - 1) : s[m] # s[j] }
        nth(n) == CHOOSE j \in keep : Cardinality({ m \in keep : m < j }) = n - 1
    IN  [n \in 1..Cardinality(keep) |-> nth(n)]

CopyFree(s) == [n \in 1..Len(WithoutCopies(s)) |-> s[WithoutCopies(s)[n]]]

\* C9: the sampled positions computed from a table are those computed from the
\* same table without the exact copies of its rows.
C9_CopiesChangeNothing ==
    Sampled => gdf_pos = preprocessing_positions(drop_duplicates(CopyFree(rushhour2)))

\* a table in which a row occurs twice has been sampled
C9_Witness ==
    /\ Sampled
    /\ Len(rushhour2) = 3
    /\ rushhour2[1] = rushhour2[3]
    /\ rushhour2[2] # rushhour2[1]
    /\ Len(df) = 2
    /\ Len(gdf_pos) >= 1

-----------------------------------------------------------------------------
(* Properties of create_maps                                               *)

\* the distinct sample timestamps of the Sampled Position set
SampleTimestamps == { gdf_pos[n].update_datetime : n \in 1..Len(gdf_pos) }

\* the 4-digit hour-minute code of an instant, from the instant alone
HourMinute(t) == ((t \div 3600) % 24) * 100 + ((t \div 60) % 60)

CodesDistinct ==
    \A t1, t2 \in SampleTimestamps : t1 # t2 => HourMinute(t1) # HourMinute(t2)

\* the timestamps in ascending order
Ascending(S) ==
    [n \in 1..Cardinality(S) |->
        CHOOSE x \in S : Cardinality({ y \in S : y < x }) = n - 1]

CellNo(cell) ==
    CASE cell = "cell3" -> 3 [] cell = "cell4" -> 4 [] cell = "cell6" -> 6
      [] cell = "cell8" -> 8 [] cell = "cell11" -> 11 [] cell = "cell12" -> 12
      [] cell = "cell14" -> 14 [] cell = "cell15" -> 15 [] cell = "done" -> 16

\* the cell has run and is over
Over(cell) == CellNo(pc) > CellNo(cell)

\* the cell has run to its end without an exception
Completed(cell) == Over(cell) /\ cell \notin raised

MapsCells == {"cell11", "cell12"}
GifCells == {"cell14", "cell15"}

ImagesOf(cell) == files[MapsArgs(cell).path_images]

C7_FailureCostsOneFrame ==
    \A cell \in MapsCells :
        (Over(cell) /\ "gdf_lines" \in bound) =>
            Cardinality({ HourMinute(t) : t \in SampleTimestamps }
                            \ DOMAIN ImagesOf(cell)) <= 1

Perms(S) ==
    { p \in [1..Cardinality(S) -> S] : \A a, b \in DOMAIN p : a # b => p[a] # p[b] }

\* the directory create_maps leaves when it takes the timestamps in order p
RECURSIVE RenderAll(_, _)
RenderAll(p, a) ==
    IF p = <<>> THEN NoFiles
    ELSE LET i == p[Len(p)]
         IN  savefig(RenderAll(SubSeq(p, 1, Len(p) - 1), a), strftime_HM(i),
                     Figure(gdf_lines, gdf_pos, i, a.xlim, a.ylim))

\* create_maps has just returned
JustCompleted(cell) == pc = NextCell(cell) /\ k = 0 /\ cell \notin raised

-----------------------------------------------------------------------------
(* Properties of create_gif                                                *)

\* the create_maps arguments that filled the directory a create_gif call reads
ExtentRead(cell) ==
    MapsArgs(CHOOSE m \in MapsCells :
                 MapsArgs(m).path_images = GifArgs(cell).path_images)

Written(cell) == GifArgs(cell).path_gif \in DOMAIN gifs

Animation(cell) == gifs[GifArgs(cell).path_gif]

C5_MissingFrameIsFatal ==
    \A cell \in GifCells :
        (/\ Over(cell)
         /\ \E t \in SampleTimestamps :
                HourMinute(t) \notin DOMAIN files[GifArgs(cell).path_images])
            => (cell \in raised /\ ~Written(cell))

\* create_gif read a directory holding the first frame but not the second
C5_Witness ==
    /\ Over("cell15")
    /\ Cardinality(SampleTimestamps) >= 2
    /\ HourMinute(Ascending(SampleTimestamps)[1]) \in DOMAIN files[path_images_downtown]
    /\ HourMinute(Ascending(SampleTimestamps)[2]) \notin DOMAIN files[path_images_downtown]
    /\ "cell15" \in raised
    /\ gifs = NoFiles

\* C6 (as claimed): each extent's animation holds the frames create_maps
\* rendered for that extent: the regional gif the regional directory's, the
\* downtown gif the downtown directory's.
C6_AnimationFromOwnExtent ==
    /\ gif_greater_portland \in DOMAIN gifs =>
          \A j \in 1..Len(gifs[gif_greater_portland]) :
              /\ gifs[gif_greater_portland][j].xlim = xlim_greater_portland
              /\ gifs[gif_greater_portland][j].ylim = ylim_greater_portland
    /\ gif_downtown \in DOMAIN gifs =>
          \A j \in 1..Len(gifs[gif_downtown]) :
              /\ gifs[gif_downtown][j].xlim = xlim_downtown
              /\ gifs[gif_downtown][j].ylim = ylim_downtown

-----------------------------------------------------------------------------
(* Property of preprocessing_lines                                         *)

PointsOf(id) ==
    Cardinality({ j \in 1..Len(df_lines) : df_lines[j].shape_id = id })

\* C8 (as claimed): once preprocessing_lines is over, every shape with at
\* least 2 points has its geometry in the Route Geometry set and every shape
\* with fewer is omitted from it.
C8_OnlyDegenerateShapeOmitted ==
    Over("cell8") =>
        \A j \in 1..Len(df_lines) :
            LET id == df_lines[j].shape_id
            IN  IF PointsOf(id) >= 2
                THEN "gdf_lines" \in bound /\ id \in DOMAIN gdf_lines
                ELSE id \notin DOMAIN gdf_lines

====
